---- MODULE Spec2Model ----
(***************************************************************************)
(* State-machine model of the AngEcomBackend REST service: the auth        *)
(* controller (register, login, profile), the admin middleware, the        *)
(* product router and the products controller, over a document store.      *)
(*                                                                         *)
(* Values of a JSON body are JavaScript values: undefined, a number or a    *)
(* string.  Numbers are exact rationals p/q (q > 0, lowest terms); strings  *)
(* are sequences of one-character strings.  NaN is a value of its own.      *)
(***************************************************************************)
EXTENDS Integers, Sequences, FiniteSets, TLC

VARIABLES users, products, nextPid, pending, last, registered, accepted

vars == <<users, products, nextPid, pending, last, registered, accepted>>

(***************************************************************************)
(* Bounds of the exploration.                                              *)
(***************************************************************************)
MaxUsers == 2
MaxProducts == 1
MaxRatings == 2
MaxListed == 3

(***************************************************************************)
(* JavaScript values.                                                      *)
(***************************************************************************)
Abs(n) == IF n < 0 THEN -n ELSE n

RECURSIVE Gcd(_, _)
Gcd(a, b) == IF b = 0 THEN a ELSE Gcd(b, a % b)

Undef == [t |-> "undef", p |-> 0, q |-> 1, s |-> <<>>]
NaN == [t |-> "nan", p |-> 0, q |-> 1, s |-> <<>>]
Str(s) == [t |-> "str", p |-> 0, q |-> 1, s |-> s]

\* the number p/q, q > 0, in lowest terms
Num(p, q) ==
  LET g == Gcd(Abs(p), q)
  IN  [t |-> "num", p |-> p \div g, q |-> q \div g, s |-> <<>>]

Whole(n) == Num(n, 1)

Digits == <<"0", "1", "2", "3", "4", "5", "6", "7", "8", "9">>

IsDigit(c) == \E i \in 1..10 : Digits[i] = c

DigitVal(c) == (CHOOSE i \in 1..10 : Digits[i] = c) - 1

\* the longest prefix of s made of decimal digits
RECURSIVE DigitPrefix(_)
DigitPrefix(s) ==
  IF s = <<>> \/ ~IsDigit(Head(s)) THEN <<>>
  ELSE <<Head(s)>> \o DigitPrefix(Tail(s))

RECURSIVE DigitsValue(_, _)
DigitsValue(s, acc) ==
  IF s = <<>> THEN acc ELSE DigitsValue(Tail(s), 10 * acc + DigitVal(Head(s)))

\* Number(s) for a string: "" is 0, a digit string is its value, else NaN
StringToNumber(s) ==
  IF s = <<>> THEN Whole(0)
  ELSE IF DigitPrefix(s) = s THEN Whole(DigitsValue(s, 0))
  ELSE NaN

\* ToNumber of the relational and arithmetic operators
ToNumber(v) ==
  CASE v.t = "num" -> v
    [] v.t = "str" -> StringToNumber(v.s)
    [] OTHER -> NaN

\* String(n) for a whole number n >= 0
RECURSIVE NatToString(_)
NatToString(n) ==
  IF n < 10 THEN <<Digits[n + 1]>>
  ELSE NatToString(n \div 10) \o <<Digits[(n % 10) + 1]>>

\* !v
Falsy(v) ==
  \/ v.t = "undef"
  \/ v.t = "nan"
  \/ v.t = "num" /\ v.p = 0
  \/ v.t = "str" /\ v.s = <<>>

\* a < b, a <= b, a > b on values: both sides go through ToNumber, and a
\* comparison with NaN is false
JsLt(a, b) ==
  LET x == ToNumber(a)
      y == ToNumber(b)
  IN  x.t = "num" /\ y.t = "num" /\ x.p * y.q < y.p * x.q

JsLe(a, b) ==
  LET x == ToNumber(a)
      y == ToNumber(b)
  IN  x.t = "num" /\ y.t = "num" /\ x.p * y.q <= y.p * x.q

JsGt(a, b) == JsLt(b, a)

\* a * b on numbers
JsMul(a, b) ==
  LET x == ToNumber(a)
      y == ToNumber(b)
  IN  IF x.t = "num" /\ y.t = "num" THEN Num(x.p * y.p, x.q * y.q) ELSE NaN

\* a / n for a count n >= 1
JsDiv(a, n) ==
  LET x == ToNumber(a)
  IN  IF x.t = "num" THEN Num(x.p, x.q * n) ELSE NaN

\* a + b where a is a number: numeric addition when b is a number, string
\* concatenation String(a) + b when b is a string.  String(a) is taken for a
\* whole a >= 0 (the totals of whole ratings are whole).
JsAdd(a, b) ==
  CASE b.t = "num" -> Num(a.p * b.q + b.p * a.q, a.q * b.q)
    [] b.t = "str" -> Str(NatToString(a.p \div a.q) \o b.s)
    [] OTHER -> NaN

\* parseFloat(v): a number is itself, a string is its leading digits
ParseFloat(v) ==
  CASE v.t = "num" -> v
    [] v.t = "str" ->
         IF DigitPrefix(v.s) = <<>> THEN NaN ELSE Whole(DigitsValue(DigitPrefix(v.s), 0))
    [] OTHER -> NaN

\* parseInt(v): the whole part of a number, the leading digits of a string
ParseInt(v) ==
  CASE v.t = "num" -> IF v.p >= 0 THEN Whole(v.p \div v.q) ELSE Whole(-((-v.p) \div v.q))
    [] v.t = "str" ->
         IF DigitPrefix(v.s) = <<>> THEN NaN ELSE Whole(DigitsValue(DigitPrefix(v.s), 0))
    [] OTHER -> NaN

\* a || b
JsOr(a, b) == IF Falsy(a) THEN b ELSE a

(***************************************************************************)
(* Strings: toLowerCase and trim.                                          *)
(***************************************************************************)
UpperChars == <<"A", "B", "C", "D", "E", "F", "G", "H", "I", "J", "K", "L", "M",
                "N", "O", "P", "Q", "R", "S", "T", "U", "V", "W", "X", "Y", "Z">>

LowerChars == <<"a", "b", "c", "d", "e", "f", "g", "h", "i", "j", "k", "l", "m",
                "n", "o", "p", "q", "r", "s", "t", "u", "v", "w", "x", "y", "z">>

LowerChar(c) ==
  IF \E i \in 1..26 : UpperChars[i] = c
  THEN LowerChars[CHOOSE i \in 1..26 : UpperChars[i] = c]
  ELSE c

ToLowerCase(s) == [i \in 1..Len(s) |-> LowerChar(s[i])]

RECURSIVE TrimStart(_)
TrimStart(s) == IF s # <<>> /\ Head(s) = " " THEN TrimStart(Tail(s)) ELSE s

RECURSIVE TrimEnd(_)
TrimEnd(s) ==
  IF s # <<>> /\ s[Len(s)] = " " THEN TrimEnd(SubSeq(s, 1, Len(s) - 1)) ELSE s

Trim(s) == TrimEnd(TrimStart(s))


(***************************************************************************)
(* The user collection.  models/user.model.js is not among the sources;    *)
(* the schema is taken from the data model of the specification: name      *)
(* (required, trimmed), email (required, lower-cased, unique index),       *)
(* password (required), role (enum user | admin, default user).  A user's  *)
(* _id is its position in users; users are never removed.                  *)
(***************************************************************************)
RoleUser == <<"u", "s", "e", "r">>
RoleAdmin == <<"a", "d", "m", "i", "n">>

\* the validators of the user schema on a document about to be written
UserSchemaValid(name, email, role) ==
  /\ name # <<>>
  /\ email # <<>>
  /\ role \in {RoleUser, RoleAdmin}

\* a collection without the unique index
EmailIndexMissing(us, email, self) == FALSE

\* the unique index on email: another document already holds the value
EmailIndexConflict(us, email, self) ==
  \E i \in 1..Len(us) : i # self /\ us[i].email = email

\* User.findOne({ email }): the ids whose stored email equals the query value
FindByEmail(us, email) == {i \in 1..Len(us) : us[i].email = email}

\* bcrypt.hash / bcrypt.compare: the stored value is not the password, and a
\* password matches exactly the hashes made from it
BcryptHash(pw) == <<"$", "2", "a", "$">> \o pw

BcryptCompare(pw, hash) == hash = BcryptHash(pw)

MinPasswordLength == 6

(***************************************************************************)
(* Responses.  last is the latest completed request with its response:     *)
(* op and req echo the request, actor is req.user as the auth middleware   *)
(* attached it (<<>> when none), admin is what the admin middleware did    *)
(* (<<>> when it did not run), reached tells whether the route's handler   *)
(* ran, cookie is the session cookie set (<<>> when none), data the user   *)
(* or product object in the body (<<>> when none).  dup is history: at the *)
(* time the request arrived, a register with the same email up to letter   *)
(* case had succeeded.                                                     *)
(***************************************************************************)
NoRequest ==
  [op |-> "none", req |-> <<>>, actor |-> <<>>, admin |-> <<>>, reached |-> FALSE,
   status |-> 0, msg |-> "", cookie |-> <<>>, data |-> <<>>, dup |-> FALSE]

Reply(op, req, status, msg) ==
  [NoRequest EXCEPT !.op = op, !.req = req, !.reached = TRUE,
                    !.status = status, !.msg = msg]

\* generateToken(user._id): the signed token carries the user id
GenerateToken(userId) == [kind |-> "jwt", userId |-> userId]

NoToken == [kind |-> "none", userId |-> 0]
BadToken == [kind |-> "bad", userId |-> 0]

\* a response that carries the stored document as it is
UserDataWhole(us, i) ==
  [id |-> i, name |-> us[i].name, email |-> us[i].email, role |-> us[i].role,
   password |-> us[i].password]

\* userData, lines 61-66 and 115-120, and the user object of lines 178-186
UserData(us, i) ==
  [id |-> i, name |-> us[i].name, email |-> us[i].email, role |-> us[i].role]

(***************************************************************************)
(* registerUser.  The handler awaits User.findOne before it hashes and     *)
(* saves, so other requests may run between RegisterCheck and RegisterSave.*)
(***************************************************************************)
\* lines 15-34: <<>> when the request passes on to the save, else the reply
RegisterCheck(us, body) ==
  IF Falsy(body.name) \/ Falsy(body.email) \/ Falsy(body.password)
  THEN <<Reply("register", body, 400, "Please provide name, email, and password")>>
  ELSE IF Len(body.password.s) < MinPasswordLength
  THEN <<Reply("register", body, 400, "Password must be at least 6 characters long")>>
  ELSE IF FindByEmail(us, ToLowerCase(body.email.s)) # {}
  THEN <<Reply("register", body, 400, "User with this email already exists")>>
  ELSE <<>>

\* a handler that never takes the role from the request
NewUserPlainRole(us, body) ==
  [name |-> Trim(body.name.s),
   email |-> Trim(ToLowerCase(body.email.s)),
   password |-> BcryptHash(body.password.s),
   role |-> RoleUser,
   createdAt |-> Len(us) + 1]

\* lines 40-45: the document built from the request
NewUser(us, body) ==
  [name |-> Trim(body.name.s),
   email |-> Trim(ToLowerCase(body.email.s)),
   password |-> BcryptHash(body.password.s),
   role |-> JsOr(body.role, Str(RoleUser)).s,
   createdAt |-> Len(us) + 1]

\* lines 47-82: user.save() and the reply; [us, reply]
RegisterSave(us, body) ==
  LET user == NewUser(us, body)
      id == Len(us) + 1
  IN  IF ~UserSchemaValid(user.name, user.email, user.role)
      THEN [us |-> us, reply |-> Reply("register", body, 400, "Validation error")]
      ELSE IF EmailIndexConflict(us, user.email, id)
      THEN [us |-> us,
            reply |-> Reply("register", body, 500, "Server error during registration")]
      ELSE [us |-> Append(us, user),
            reply |-> [Reply("register", body, 201, "User registered successfully")
                         EXCEPT !.cookie = <<GenerateToken(id)>>,
                                !.data = <<UserData(Append(us, user), id)>>]]


\* a login that tells an unknown email from a wrong password
LoginReplyLeaky(us, body) ==
  IF Falsy(body.email) \/ Falsy(body.password)
  THEN Reply("login", body, 400, "Please provide email and password")
  ELSE LET found == FindByEmail(us, ToLowerCase(body.email.s))
       IN  IF found = {}
           THEN Reply("login", body, 404, "User not found")
           ELSE LET i == CHOOSE i \in found : TRUE
                IN  IF ~BcryptCompare(body.password.s, us[i].password)
                    THEN Reply("login", body, 401, "Invalid email or password")
                    ELSE [Reply("login", body, 200, "Login successful")
                            EXCEPT !.cookie = <<GenerateToken(i)>>,
                                   !.data = <<UserData(us, i)>>]

(***************************************************************************)
(* loginUser.                                                              *)
(***************************************************************************)
LoginReply(us, body) ==
  IF Falsy(body.email) \/ Falsy(body.password)
  THEN Reply("login", body, 400, "Please provide email and password")
  ELSE LET found == FindByEmail(us, ToLowerCase(body.email.s))
       IN  IF found = {}
           THEN Reply("login", body, 401, "Invalid email or password")
           ELSE LET i == CHOOSE i \in found : TRUE
                IN  IF ~BcryptCompare(body.password.s, us[i].password)
                    THEN Reply("login", body, 401, "Invalid email or password")
                    ELSE [Reply("login", body, 200, "Login successful")
                            EXCEPT !.cookie = <<GenerateToken(i)>>,
                                   !.data = <<UserData(us, i)>>]

(***************************************************************************)
(* The auth middleware.  middleware/auth.js is not among the sources; from *)
(* the specification: it verifies the session token, answers 401 and ends  *)
(* the request when the token is missing or invalid, and otherwise         *)
(* attaches the actor (user id and role) as req.user.                      *)
(***************************************************************************)
Auth(us, token) ==
  IF token.kind = "jwt" /\ token.userId \in 1..Len(us)
  THEN <<[userId |-> token.userId, role |-> us[token.userId].role]>>
  ELSE <<>>

AuthDenied(op) ==
  [NoRequest EXCEPT !.op = op, !.status = 401, !.msg = "Not authorized"]

\* the tokens a client can present: none, or one issued at registration or
\* login to a user; a forged one fails like none
Tokens(us) == {NoToken} \cup {GenerateToken(i) : i \in 1..Len(us)}

(***************************************************************************)
(* getUserProfile and updateUserProfile.                                   *)
(***************************************************************************)
GetProfileReply(us, actor) ==
  IF actor.userId \notin 1..Len(us)
  THEN [Reply("getProfile", <<>>, 404, "User not found") EXCEPT !.actor = <<actor>>]
  ELSE [Reply("getProfile", <<>>, 200, "")
          EXCEPT !.actor = <<actor>>,
                 !.data = <<[id |-> actor.userId, name |-> us[actor.userId].name,
                             email |-> us[actor.userId].email,
                             role |-> us[actor.userId].role,
                             createdAt |-> us[actor.userId].createdAt]>>]

\* lines 160-162: the fields written, each <<>> when not supplied
UpdateData(body) ==
  [name |-> IF Falsy(body.name) THEN <<>> ELSE <<Trim(body.name.s)>>,
   email |-> IF Falsy(body.email) THEN <<>> ELSE <<Trim(ToLowerCase(body.email.s))>>]

\* lines 164-172: <<>> when the request passes on to the update, else the reply
UpdateProfileCheck(us, actor, body) ==
  IF /\ ~Falsy(body.email)
     /\ \E i \in FindByEmail(us, ToLowerCase(body.email.s)) : i # actor.userId
  THEN <<[Reply("updateProfile", body, 400, "Email is already taken by another user")
            EXCEPT !.actor = <<actor>>]>>
  ELSE <<>>

\* an update that also writes the role back to its default
ApplyUserUpdateRole(u, data) ==
  [u EXCEPT !.name = IF data.name = <<>> THEN @ ELSE data.name[1],
            !.email = IF data.email = <<>> THEN @ ELSE data.email[1],
            !.role = RoleUser]

\* User.findByIdAndUpdate(userId, updateData, { runValidators: true })
ApplyUserUpdate(u, data) ==
  [u EXCEPT !.name = IF data.name = <<>> THEN @ ELSE data.name[1],
            !.email = IF data.email = <<>> THEN @ ELSE data.email[1]]

\* lines 174-194: the update and the reply; [us, reply]
UpdateProfileWrite(us, actor, body) ==
  LET data == UpdateData(body)
      id == actor.userId
      R(status, msg) == [Reply("updateProfile", body, status, msg) EXCEPT !.actor = <<actor>>]
  IN  IF data.name = <<<<>>>> \/ data.email = <<<<>>>>
      THEN [us |-> us, reply |-> R(400, "Validation error")]
      ELSE IF id \notin 1..Len(us)
      THEN [us |-> us, reply |-> R(404, "User not found")]
      ELSE IF data.email # <<>> /\ EmailIndexConflict(us, data.email[1], id)
      THEN [us |-> us, reply |-> R(500, "Server error updating profile")]
      ELSE LET after == [us EXCEPT ![id] = ApplyUserUpdate(us[id], data)]
           IN  [us |-> after,
                reply |-> [R(200, "Profile updated successfully")
                             EXCEPT !.data = <<UserData(after, id)>>]]

(***************************************************************************)
(* The admin middleware: what it answers itself (status 0 when nothing)    *)
(* and how many times it calls next().  reqUser is req.user: <<>> when no  *)
(* actor is attached, else <<actor>>.                                      *)
(***************************************************************************)
\* a middleware that answers a request without an actor like one of a plain user
AdminForbidsAnonymous(reqUser) ==
  IF reqUser = <<>> \/ reqUser[1].role # RoleAdmin
  THEN [status |-> 403, msg |-> "Access denied. Admin privileges required.", next |-> 0]
  ELSE [status |-> 0, msg |-> "", next |-> 1]

\* a middleware that lets every authenticated actor through
AdminAnyActor(reqUser) ==
  IF reqUser = <<>>
  THEN [status |-> 401, msg |-> "Authentication required", next |-> 0]
  ELSE [status |-> 0, msg |-> "", next |-> 1]

Admin(reqUser) ==
  IF reqUser = <<>>
  THEN [status |-> 401, msg |-> "Authentication required", next |-> 0]
  ELSE IF reqUser[1].role # RoleAdmin
  THEN [status |-> 403, msg |-> "Access denied. Admin privileges required.", next |-> 0]
  ELSE [status |-> 0, msg |-> "", next |-> 1]

(***************************************************************************)
(* The product schema.                                                     *)
(***************************************************************************)
MaxNameLength == 100
MaxDescriptionLength == 1000
MaxBrandLength == 50
MaxRating == 5

MinPrice == Num(1, 100)

DefaultBrand ==
  <<"M", "a", "d", "e", "I", "n", "I", "n", "d", "i", "a">>

Categories ==
  {<<"e", "l", "e", "c", "t", "r", "o", "n", "i", "c", "s">>,
   <<"c", "l", "o", "t", "h", "i", "n", "g">>,
   <<"b", "o", "o", "k", "s">>,
   <<"h", "o", "m", "e">>,
   <<"s", "p", "o", "r", "t", "s">>,
   <<"t", "o", "y", "s">>,
   <<"b", "e", "a", "u", "t", "y">>,
   <<"a", "u", "t", "o", "m", "o", "t", "i", "v", "e">>}

ImageExtensions ==
  {<<"j", "p", "g">>, <<"j", "p", "e", "g">>, <<"p", "n", "g">>, <<"g", "i", "f">>,
   <<"w", "e", "b", "p">>}

StartsWith(s, pre) == Len(s) >= Len(pre) /\ SubSeq(s, 1, Len(pre)) = pre

\* /^https?:\/\/.+\.(jpg|jpeg|png|gif|webp)(\?.*)?$/i
IsImageUrl(v) ==
  LET s == ToLowerCase(v)
  IN  \E scheme \in {<<"h", "t", "t", "p", ":", "/", "/">>,
                     <<"h", "t", "t", "p", "s", ":", "/", "/">>} :
        /\ StartsWith(s, scheme)
        /\ \E ext \in ImageExtensions :
             \E k \in 1..Len(s) :
               \* s[1..k] ends with "." and ext, after at least one character
               /\ k - Len(ext) - 1 >= Len(scheme) + 1
               /\ SubSeq(s, k - Len(ext) + 1, k) = ext
               /\ s[k - Len(ext)] = "."
               /\ k = Len(s) \/ s[k + 1] = "?"

NameValid(s) == s # <<>> /\ Len(s) <= MaxNameLength
DescriptionValid(s) == s # <<>> /\ Len(s) <= MaxDescriptionLength
PriceValid(v) == v.t = "num" /\ JsLe(MinPrice, v)
ImageValid(s) == s # <<>> /\ IsImageUrl(s)
CategoryValid(s) == s \in Categories
BrandValid(s) == Len(s) <= MaxBrandLength
RatingValid(v) == v.t = "num" /\ JsLe(Whole(0), v) /\ JsLe(v, Whole(MaxRating))
StockValid(v) == v.t = "num" /\ JsLe(Whole(0), v)

\* the validators run by save() on a document
ProductSchemaValid(doc) ==
  /\ NameValid(doc.name)
  /\ DescriptionValid(doc.description)
  /\ PriceValid(doc.price)
  /\ ImageValid(doc.image)
  /\ CategoryValid(doc.category)
  /\ BrandValid(doc.brand)
  /\ RatingValid(doc.rating)
  /\ StockValid(doc.stock)

(***************************************************************************)
(* The product collection.  products maps the _id of each stored product   *)
(* to its document; ids are handed out in order and never reused.  The id  *)
(* of a request is well-formed (wf) or not; a malformed id makes the       *)
(* driver's cast of the id throw.                                          *)
(***************************************************************************)
Found(ps, id) == id.wf /\ id.n \in DOMAIN ps

Remove(ps, n) == [k \in DOMAIN ps \ {n} |-> ps[k]]

ProductReply(op, req, status, msg, actor) ==
  [Reply(op, req, status, msg) EXCEPT !.actor = actor]

\* getProductById
GetProductReply(ps, id) ==
  IF ~id.wf THEN Reply("getById", [id |-> id], 500, "Error fetching product")
  ELSE IF ~Found(ps, id) THEN Reply("getById", [id |-> id], 404, "Product not found")
  ELSE [Reply("getById", [id |-> id], 200, "") EXCEPT !.data = <<ps[id.n]>>]

\* a check that takes a stock of 0 for a missing stock
CreateCheckFalsyStock(body) ==
  IF \/ Falsy(body.name) \/ Falsy(body.description) \/ Falsy(body.price)
     \/ Falsy(body.image) \/ Falsy(body.category) \/ Falsy(body.stock)
  THEN <<[status |-> 400,
          msg |-> "All fields are required: name, description, price, image, category, stock"]>>
  ELSE IF JsLe(body.price, Whole(0))
  THEN <<[status |-> 400, msg |-> "Price must be greater than 0"]>>
  ELSE IF JsLt(body.stock, Whole(0))
  THEN <<[status |-> 400, msg |-> "Stock cannot be negative"]>>
  ELSE <<>>

\* createProduct, lines 32-44: <<>> when the request passes on, else status and message
CreateCheck(body) ==
  IF \/ Falsy(body.name) \/ Falsy(body.description) \/ Falsy(body.price)
     \/ Falsy(body.image) \/ Falsy(body.category) \/ body.stock.t = "undef"
  THEN <<[status |-> 400,
          msg |-> "All fields are required: name, description, price, image, category, stock"]>>
  ELSE IF JsLe(body.price, Whole(0))
  THEN <<[status |-> 400, msg |-> "Price must be greater than 0"]>>
  ELSE IF JsLt(body.stock, Whole(0))
  THEN <<[status |-> 400, msg |-> "Stock cannot be negative"]>>
  ELSE <<>>

\* createProduct, lines 46-55, with the schema's setters and defaults
NewProduct(body, now) ==
  [name |-> Trim(body.name.s),
   description |-> Trim(body.description.s),
   price |-> ParseFloat(body.price),
   image |-> body.image.s,
   category |-> body.category.s,
   stock |-> ParseInt(body.stock),
   brand |-> Trim(JsOr(body.brand, Str(DefaultBrand)).s),
   rating |-> IF body.rating.t # "undef" THEN ParseFloat(body.rating) ELSE Whole(0),
   ratingCount |-> 0,
   isActive |-> TRUE,
   createdAt |-> now]

\* createProduct: [ps, reply]
CreateOutcome(ps, pid, body, actor) ==
  LET chk == CreateCheck(body)
      doc == NewProduct(body, pid)
  IN  IF chk # <<>>
      THEN [ps |-> ps, reply |-> ProductReply("create", body, chk[1].status, chk[1].msg, actor)]
      ELSE IF ~ProductSchemaValid(doc)
      THEN [ps |-> ps, reply |-> ProductReply("create", body, 400, "Validation error", actor)]
      ELSE [ps |-> (pid :> doc) @@ ps,
            reply |-> [ProductReply("create", body, 201, "", actor) EXCEPT !.data = <<doc>>]]

\* updateProduct, lines 79-87: the fields written, each <<>> when not supplied
UpdateProductData(body) ==
  [name |-> IF Falsy(body.name) THEN <<>> ELSE <<Trim(body.name.s)>>,
   description |-> IF Falsy(body.description) THEN <<>> ELSE <<Trim(body.description.s)>>,
   price |-> IF body.price.t = "undef" THEN <<>> ELSE <<ParseFloat(body.price)>>,
   image |-> IF Falsy(body.image) THEN <<>> ELSE <<body.image.s>>,
   category |-> IF Falsy(body.category) THEN <<>> ELSE <<body.category.s>>,
   stock |-> IF body.stock.t = "undef" THEN <<>> ELSE <<ParseInt(body.stock)>>,
   brand |-> IF Falsy(body.brand) THEN <<>> ELSE <<Trim(body.brand.s)>>,
   rating |-> IF body.rating.t = "undef" THEN <<>> ELSE <<ParseFloat(body.rating)>>]

\* a number field of the update that does not cast to a number
UpdateCastFails(data) ==
  \/ data.price # <<>> /\ data.price[1].t # "num"
  \/ data.stock # <<>> /\ data.stock[1].t # "num"
  \/ data.rating # <<>> /\ data.rating[1].t # "num"

\* runValidators: the validators of the paths the update sets
UpdateValid(data) ==
  /\ data.name # <<>> => NameValid(data.name[1])
  /\ data.description # <<>> => DescriptionValid(data.description[1])
  /\ data.price # <<>> => PriceValid(data.price[1])
  /\ data.image # <<>> => ImageValid(data.image[1])
  /\ data.category # <<>> => CategoryValid(data.category[1])
  /\ data.stock # <<>> => StockValid(data.stock[1])
  /\ data.brand # <<>> => BrandValid(data.brand[1])
  /\ data.rating # <<>> => RatingValid(data.rating[1])

ApplyProductUpdate(doc, data) ==
  [doc EXCEPT !.name = IF data.name = <<>> THEN @ ELSE data.name[1],
              !.description = IF data.description = <<>> THEN @ ELSE data.description[1],
              !.price = IF data.price = <<>> THEN @ ELSE data.price[1],
              !.image = IF data.image = <<>> THEN @ ELSE data.image[1],
              !.category = IF data.category = <<>> THEN @ ELSE data.category[1],
              !.stock = IF data.stock = <<>> THEN @ ELSE data.stock[1],
              !.brand = IF data.brand = <<>> THEN @ ELSE data.brand[1],
              !.rating = IF data.rating = <<>> THEN @ ELSE data.rating[1]]

\* updateProduct: [ps, reply]
UpdateOutcome(ps, id, body, actor) ==
  LET data == UpdateProductData(body)
      req == [id |-> id, body |-> body]
      R(status, msg) == ProductReply("update", req, status, msg, actor)
  IN  IF body.price.t # "undef" /\ JsLe(body.price, Whole(0))
      THEN [ps |-> ps, reply |-> R(400, "Price must be greater than 0")]
      ELSE IF body.stock.t # "undef" /\ JsLt(body.stock, Whole(0))
      THEN [ps |-> ps, reply |-> R(400, "Stock cannot be negative")]
      ELSE IF ~id.wf \/ UpdateCastFails(data)
      THEN [ps |-> ps, reply |-> R(500, "Error updating product")]
      ELSE IF ~UpdateValid(data)
      THEN [ps |-> ps, reply |-> R(400, "Validation error")]
      ELSE IF ~Found(ps, id)
      THEN [ps |-> ps, reply |-> R(404, "Product not found")]
      ELSE LET doc == ApplyProductUpdate(ps[id.n], data)
           IN  [ps |-> [ps EXCEPT ![id.n] = doc],
                reply |-> [R(200, "") EXCEPT !.data = <<doc>>]]

\* deleteProduct: [ps, reply]
DeleteOutcome(ps, id, actor) ==
  LET R(status, msg) == ProductReply("delete", [id |-> id], status, msg, actor)
  IN  IF ~id.wf THEN [ps |-> ps, reply |-> R(500, "Error deleting product")]
      ELSE IF ~Found(ps, id) THEN [ps |-> ps, reply |-> R(404, "Product not found")]
      ELSE [ps |-> Remove(ps, id.n), reply |-> R(200, "Product deleted successfully")]

\* a check that turns the largest rating away
RatingRejectedAtFive(rating) ==
  Falsy(rating) \/ JsLt(rating, Whole(0)) \/ JsLe(Whole(MaxRating), rating)

\* updateProductRating, line 116
RatingRejected(rating) ==
  Falsy(rating) \/ JsLt(rating, Whole(0)) \/ JsGt(rating, Whole(MaxRating))

\* a handler that counts only the first rating
RatedKeepsCount(doc, rating) ==
  IF doc.ratingCount # 0
  THEN LET totalRating == JsMul(doc.rating, Whole(doc.ratingCount))
       IN  [doc EXCEPT !.rating = JsDiv(JsAdd(totalRating, rating), doc.ratingCount + 1)]
  ELSE [doc EXCEPT !.rating = ToNumber(rating), !.ratingCount = 1]

\* updateProductRating, lines 121-128, on the document read; rating and
\* ratingCount are cast to numbers when assigned
Rated(doc, rating) ==
  IF doc.ratingCount # 0
  THEN LET totalRating == JsMul(doc.rating, Whole(doc.ratingCount))
       IN  [doc EXCEPT !.ratingCount = @ + 1,
                       !.rating = JsDiv(JsAdd(totalRating, rating), doc.ratingCount + 1)]
  ELSE [doc EXCEPT !.rating = ToNumber(rating), !.ratingCount = 1]

\* updateProductRating, lines 118-119: <<>> when the document was read
RateRead(ps, id, rating, actor) ==
  LET R(status, msg) ==
        ProductReply("rate", [id |-> id, rating |-> rating], status, msg, actor)
  IN  IF RatingRejected(rating)
      THEN <<R(400, "Invalid rating value. Must be between 0 and 5.")>>
      ELSE IF ~id.wf THEN <<R(500, "Error updating product rating")>>
      ELSE IF ~Found(ps, id) THEN <<R(404, "Product not found")>>
      ELSE <<>>

\* updateProductRating, lines 121-135, on the document read before: save()
\* validates, then sets on the stored document the paths whose value differs
\* from the one read (ratingCount always, rating unless the new mean equals
\* the old), and fails when that document is gone; [ps, reply]
RateSave(ps, id, rating, read, actor) ==
  LET doc == Rated(read, rating)
      R(status, msg) ==
        ProductReply("rate", [id |-> id, rating |-> rating], status, msg, actor)
  IN  IF ~RatingValid(doc.rating) \/ ~Found(ps, id)
      THEN [ps |-> ps, reply |-> R(500, "Error updating product rating")]
      ELSE [ps |-> [ps EXCEPT ![id.n].rating = IF doc.rating = read.rating THEN @
                                               ELSE doc.rating,
                              ![id.n].ratingCount = doc.ratingCount],
            reply |-> [R(200, "") EXCEPT !.data = <<doc>>]]

(***************************************************************************)
(* Request inputs.                                                         *)
(***************************************************************************)
AliceName == Str(<<"A", "l">>)
BobName == Str(<<"B", "o", " ">>)
Secret == Str(<<"s", "e", "c", "r", "e", "t">>)

EmailInputs ==
  {Str(<<"a", "@", "x">>), Str(<<"A", "@", "x">>), Str(<<"a", "@", "x", " ">>),
   Str(<<"b", "@", "x">>)}

BaseRegister ==
  [name |-> AliceName, email |-> Str(<<"a", "@", "x">>), password |-> Secret, role |-> Undef]

\* every well-formed registration, and the base one with one field spoilt
RegisterBodies ==
  [name : {AliceName, BobName}, email : EmailInputs, password : {Secret},
   role : {Undef, Str(RoleAdmin)}]
  \cup {[BaseRegister EXCEPT !.name = Undef], [BaseRegister EXCEPT !.name = Str(<<" ">>)],
        [BaseRegister EXCEPT !.email = Undef], [BaseRegister EXCEPT !.password = Undef],
        [BaseRegister EXCEPT !.password = Str(<<"a", "b", "c">>)],
        [BaseRegister EXCEPT !.role = Str(<<"r", "o", "o", "t">>)]}

LoginBodies ==
  [email : EmailInputs \cup {Undef},
   password : {Undef, Secret, Str(<<"s", "e", "c", "r", "e", "T">>)}]

ProfileBodies ==
  [name : {Undef, AliceName, BobName, Str(<<" ">>)}, email : EmailInputs \cup {Undef}]

\* the requests taken through the window between a check and its write
RaceRegisterBodies == {[BaseRegister EXCEPT !.email = e] : e \in EmailInputs}

RaceProfileBodies ==
  {[name |-> Undef, email |-> e] : e \in EmailInputs} \cup {[name |-> BobName, email |-> Undef]}

\* history: a register with this email, up to letter case, has succeeded
Dup(body) == body.email.t = "str" /\ ToLowerCase(body.email.s) \in registered

(***************************************************************************)
(* Actions of the auth routes.  A handler that awaits between its check    *)
(* and its write is one action when nothing runs in between, and a Start   *)
(* and a Finish action around the requests that do.                        *)
(***************************************************************************)
Register(body) ==
  LET chk == RegisterCheck(users, body)
      out == RegisterSave(users, body)
  IN  /\ IF chk # <<>>
         THEN /\ last' = [chk[1] EXCEPT !.dup = Dup(body)]
              /\ UNCHANGED <<users, registered>>
         ELSE /\ Len(out.us) <= MaxUsers
              /\ users' = out.us
              /\ last' = [out.reply EXCEPT !.dup = Dup(body)]
              /\ registered' = IF out.reply.status = 201
                               THEN registered \cup {ToLowerCase(body.email.s)}
                               ELSE registered
      /\ UNCHANGED <<products, nextPid, pending, accepted>>

RegisterStart(body) ==
  /\ pending = <<>>
  /\ RegisterCheck(users, body) = <<>>
  /\ pending' = <<[op |-> "register", body |-> body, dup |-> Dup(body)]>>
  /\ UNCHANGED <<users, products, nextPid, last, registered, accepted>>

RegisterFinish ==
  /\ pending # <<>>
  /\ pending[1].op = "register"
  /\ LET body == pending[1].body
         out == RegisterSave(users, body)
     IN  /\ Len(out.us) <= MaxUsers
         /\ users' = out.us
         /\ last' = [out.reply EXCEPT !.dup = pending[1].dup]
         /\ registered' = IF out.reply.status = 201
                          THEN registered \cup {ToLowerCase(body.email.s)}
                          ELSE registered
  /\ pending' = <<>>
  /\ UNCHANGED <<products, nextPid, accepted>>

Login(body) ==
  /\ last' = LoginReply(users, body)
  /\ UNCHANGED <<users, products, nextPid, pending, registered, accepted>>

GetProfile(token) ==
  /\ last' = IF Auth(users, token) = <<>>
             THEN AuthDenied("getProfile")
             ELSE GetProfileReply(users, Auth(users, token)[1])
  /\ UNCHANGED <<users, products, nextPid, pending, registered, accepted>>

UpdateProfile(token, body) ==
  LET a == Auth(users, token)
  IN  /\ IF a = <<>>
         THEN /\ last' = AuthDenied("updateProfile")
              /\ users' = users
         ELSE LET chk == UpdateProfileCheck(users, a[1], body)
                  out == UpdateProfileWrite(users, a[1], body)
              IN  IF chk # <<>>
                  THEN last' = chk[1] /\ users' = users
                  ELSE last' = out.reply /\ users' = out.us
      /\ UNCHANGED <<products, nextPid, pending, registered, accepted>>

UpdateProfileStart(token, body) ==
  /\ pending = <<>>
  /\ Auth(users, token) # <<>>
  /\ UpdateProfileCheck(users, Auth(users, token)[1], body) = <<>>
  /\ pending' = <<[op |-> "updateProfile", actor |-> Auth(users, token)[1], body |-> body]>>
  /\ UNCHANGED <<users, products, nextPid, last, registered, accepted>>

UpdateProfileFinish ==
  /\ pending # <<>>
  /\ pending[1].op = "updateProfile"
  /\ LET out == UpdateProfileWrite(users, pending[1].actor, pending[1].body)
     IN  users' = out.us /\ last' = out.reply
  /\ pending' = <<>>
  /\ UNCHANGED <<products, nextPid, registered, accepted>>

(***************************************************************************)
(* The product routes: the middleware chain of each route, then its        *)
(* handler.  accepted is history: for each stored product, the sum and the *)
(* number of the rating values accepted for it, and whether since its      *)
(* first rating nothing but ratings, one after another, touched it.        *)
(***************************************************************************)
\* router.post('/', auth, admin, ...), router.put, router.delete
AdminGate(us, token) ==
  LET a == Auth(us, token)
  IN  IF a = <<>>
      THEN [pass |-> FALSE, actor |-> <<>>, admin |-> <<>>, status |-> 401,
            msg |-> "Not authorized"]
      ELSE [pass |-> Admin(a).next = 1, actor |-> a, admin |-> <<Admin(a)>>,
            status |-> Admin(a).status, msg |-> Admin(a).msg]

Denied(op, gate) ==
  [NoRequest EXCEPT !.op = op, !.actor = gate.actor, !.admin = gate.admin,
                    !.status = gate.status, !.msg = gate.msg]

NoRatings == [sum |-> Whole(0), n |-> 0, clean |-> TRUE]

\* router.post('/', auth, admin, createProduct) on a catalog of at most cap
\* products
CreateProductUpTo(cap, token, body) ==
  LET gate == AdminGate(users, token)
      out == CreateOutcome(products, nextPid, body, gate.actor)
  IN  /\ IF ~gate.pass
         THEN /\ last' = Denied("create", gate)
              /\ UNCHANGED <<products, nextPid, accepted>>
         ELSE /\ last' = [out.reply EXCEPT !.admin = gate.admin]
              /\ products' = out.ps
              /\ IF out.reply.status = 201
                 THEN /\ nextPid <= cap
                      /\ nextPid' = nextPid + 1
                      /\ accepted' = (nextPid :> NoRatings) @@ accepted
                 ELSE UNCHANGED <<nextPid, accepted>>
      /\ UNCHANGED <<users, pending, registered>>

CreateProduct(token, body) == CreateProductUpTo(MaxProducts, token, body)

UpdateProduct(token, id, body) ==
  LET gate == AdminGate(users, token)
      out == UpdateOutcome(products, id, body, gate.actor)
  IN  /\ IF ~gate.pass
         THEN /\ last' = Denied("update", gate)
              /\ UNCHANGED <<products, accepted>>
         ELSE /\ last' = [out.reply EXCEPT !.admin = gate.admin]
              /\ products' = out.ps
              /\ accepted' = IF out.reply.status = 200 /\ accepted[id.n].n > 0
                             THEN [accepted EXCEPT ![id.n].clean = FALSE]
                             ELSE accepted
      /\ UNCHANGED <<users, nextPid, pending, registered>>

DeleteProduct(token, id) ==
  LET gate == AdminGate(users, token)
      out == DeleteOutcome(products, id, gate.actor)
  IN  /\ IF ~gate.pass
         THEN /\ last' = Denied("delete", gate)
              /\ UNCHANGED <<products, accepted>>
         ELSE /\ last' = [out.reply EXCEPT !.admin = gate.admin]
              /\ products' = out.ps
              /\ accepted' = IF out.reply.status = 200 THEN Remove(accepted, id.n)
                             ELSE accepted
      /\ UNCHANGED <<users, nextPid, pending, registered>>

GetProductById(id) ==
  /\ last' = GetProductReply(products, id)
  /\ UNCHANGED <<users, products, nextPid, pending, registered, accepted>>

\* the history after an accepted rating
Accept(acc, n, rating, inOrder) ==
  [acc EXCEPT ![n] = [sum |-> JsAdd(@.sum, ToNumber(rating)), n |-> @.n + 1,
                      clean |-> @.clean /\ inOrder]]

\* router.patch('/:id/rating', auth, updateProductRating), with nothing
\* running between the read and the save
Rate(token, id, rating) ==
  LET a == Auth(users, token)
      req == [id |-> id, rating |-> rating]
      chk == RateRead(products, id, rating, a)
      out == RateSave(products, id, rating, products[id.n], a)
  IN  /\ IF a = <<>>
         THEN /\ last' = AuthDenied("rate")
              /\ UNCHANGED <<products, accepted>>
         ELSE IF chk # <<>>
         THEN /\ last' = chk[1]
              /\ UNCHANGED <<products, accepted>>
         ELSE /\ products[id.n].ratingCount < MaxRatings
              /\ last' = out.reply
              /\ products' = out.ps
              /\ accepted' = IF out.reply.status = 200
                             THEN Accept(accepted, id.n, rating, TRUE)
                             ELSE accepted
      /\ UNCHANGED <<users, nextPid, pending, registered>>

\* the same request up to its read of the product
RateStart(token, id, rating) ==
  LET a == Auth(users, token)
  IN  /\ pending = <<>>
      /\ a # <<>>
      /\ RateRead(products, id, rating, a) = <<>>
      /\ products[id.n].ratingCount < MaxRatings
      /\ pending' = <<[op |-> "rate", id |-> id, rating |-> rating,
                       read |-> products[id.n], actor |-> a]>>
      /\ UNCHANGED <<users, products, nextPid, last, registered, accepted>>

\* and from its read on
RateFinish ==
  /\ pending # <<>>
  /\ pending[1].op = "rate"
  /\ LET r == pending[1]
         out == RateSave(products, r.id, r.rating, r.read, r.actor)
     IN  /\ last' = out.reply
         /\ products' = out.ps
         /\ accepted' = IF out.reply.status = 200
                        THEN Accept(accepted, r.id.n, r.rating, products[r.id.n] = r.read)
                        ELSE accepted
  /\ pending' = <<>>
  /\ UNCHANGED <<users, nextPid, registered>>

\* the admin middleware on a request, whatever ran before it
AdminMiddleware(reqUser) ==
  /\ last' = [NoRequest EXCEPT !.op = "admin", !.actor = reqUser,
                               !.admin = <<Admin(reqUser)>>,
                               !.reached = (Admin(reqUser).next > 0),
                               !.status = Admin(reqUser).status,
                               !.msg = Admin(reqUser).msg]
  /\ UNCHANGED <<users, products, nextPid, pending, registered, accepted>>

(***************************************************************************)
(* Inputs of the product routes.                                           *)
(***************************************************************************)
Pen == Str(<<"P", "e", "n">>)
Cup == Str(<<"C", "u", "p", " ">>)
Books == Str(<<"b", "o", "o", "k", "s">>)
Toys == Str(<<"t", "o", "y", "s">>)
Acme == Str(<<"A", "c", "m", "e">>)
PngUrl == Str(<<"h", "t", "t", "p", ":", "/", "/", "a", ".", "p", "n", "g">>)
TxtUrl == Str(<<"h", "t", "t", "p", ":", "/", "/", "a", ".", "t", "x", "t">>)

\* price 0.01, stock 0, no brand, no rating
BaseProduct ==
  [name |-> Pen, description |-> Str(<<"d">>), price |-> Num(1, 100), image |-> PngUrl,
   category |-> Books, stock |-> Whole(0), brand |-> Undef, rating |-> Undef]

\* every field given, numbers as strings or with a fraction
FullProduct ==
  [name |-> Cup, description |-> Str(<<"d">>), price |-> Str(<<"2">>), image |-> PngUrl,
   category |-> Toys, stock |-> Num(3, 2), brand |-> Acme, rating |-> Whole(4)]

CreateBodies ==
  {BaseProduct, FullProduct,
   [BaseProduct EXCEPT !.name = Undef], [BaseProduct EXCEPT !.description = Undef],
   [BaseProduct EXCEPT !.price = Undef], [BaseProduct EXCEPT !.image = Undef],
   [BaseProduct EXCEPT !.category = Undef], [BaseProduct EXCEPT !.stock = Undef],
   [BaseProduct EXCEPT !.price = Whole(0)], [BaseProduct EXCEPT !.price = Whole(-1)],
   [BaseProduct EXCEPT !.price = Num(1, 200)], [BaseProduct EXCEPT !.price = Str(<<"x">>)],
   [BaseProduct EXCEPT !.stock = Whole(-1)], [BaseProduct EXCEPT !.name = Str(<<" ">>)],
   [BaseProduct EXCEPT !.image = TxtUrl], [BaseProduct EXCEPT !.category = Str(<<"f">>)],
   [BaseProduct EXCEPT !.rating = Whole(6)]}

NoFields ==
  [name |-> Undef, description |-> Undef, price |-> Undef, image |-> Undef,
   category |-> Undef, stock |-> Undef, brand |-> Undef, rating |-> Undef]

UpdateBodies ==
  {NoFields, [NoFields EXCEPT !.name = Cup], [NoFields EXCEPT !.price = Whole(0)],
   [NoFields EXCEPT !.stock = Whole(-1)], [NoFields EXCEPT !.category = Str(<<"f">>)],
   [NoFields EXCEPT !.rating = Str(<<"x">>)]}

IdInputs == {[wf |-> TRUE, n |-> i] : i \in 1..MaxProducts} \cup {[wf |-> FALSE, n |-> 0]}

ActorInputs ==
  {<<>>} \cup {<<[userId |-> i, role |-> r]>> : i \in 1..2, r \in {RoleUser, RoleAdmin, <<>>}}

\* the inputs of the rating runs
RatedCreateBodies == {BaseProduct, [BaseProduct EXCEPT !.rating = Whole(4)]}

RatedUpdateBodies == {[NoFields EXCEPT !.rating = Whole(3)]}

RatingInputs == {Whole(0), Whole(1), Whole(4), Str(<<"0">>)}

\* a store with an admin and a plain user registered
SeedUsers ==
  <<[name |-> <<"A", "l">>, email |-> <<"a", "@", "x">>,
     password |-> BcryptHash(Secret.s), role |-> RoleAdmin, createdAt |-> 1],
    [name |-> <<"B", "o">>, email |-> <<"b", "@", "x">>,
     password |-> BcryptHash(Secret.s), role |-> RoleUser, createdAt |-> 2]>>

Init ==
  /\ users = <<>>
  /\ products = <<>>
  /\ nextPid = 1
  /\ pending = <<>>
  /\ last = NoRequest
  /\ registered = {}
  /\ accepted = <<>>

\* the auth routes, each request running to its end before the next
NextAuth ==
  \/ \E body \in RegisterBodies : Register(body)
  \/ \E body \in LoginBodies : Login(body)
  \/ \E token \in Tokens(users) \cup {BadToken} : GetProfile(token)
  \/ \E token \in Tokens(users), body \in ProfileBodies : UpdateProfile(token, body)

SpecAuth == Init /\ [][NextAuth]_vars

\* register and profile updates, one of them between its check and its write
\* while others run
NextAuthRace ==
  \/ \E body \in RaceRegisterBodies : Register(body)
  \/ \E body \in RaceRegisterBodies : RegisterStart(body)
  \/ RegisterFinish
  \/ \E token \in Tokens(users), body \in RaceProfileBodies : UpdateProfile(token, body)
  \/ \E token \in Tokens(users), body \in RaceProfileBodies : UpdateProfileStart(token, body)
  \/ UpdateProfileFinish

SpecAuthRace == Init /\ [][NextAuthRace]_vars


\* the product routes on a store that holds an admin and a plain user
InitCatalog ==
  /\ users = SeedUsers
  /\ products = <<>>
  /\ nextPid = 1
  /\ pending = <<>>
  /\ last = NoRequest
  /\ registered = {<<"a", "@", "x">>, <<"b", "@", "x">>}
  /\ accepted = <<>>

NextCatalog ==
  \/ \E token \in Tokens(users), body \in CreateBodies : CreateProduct(token, body)
  \/ \E token \in Tokens(users), id \in IdInputs, body \in UpdateBodies :
       UpdateProduct(token, id, body)
  \/ \E token \in Tokens(users), id \in IdInputs : DeleteProduct(token, id)
  \/ \E id \in IdInputs : GetProductById(id)
  \/ \E token \in Tokens(users), id \in IdInputs : Rate(token, id, Whole(4))
  \/ \E reqUser \in ActorInputs : AdminMiddleware(reqUser)

SpecCatalog == InitCatalog /\ [][NextCatalog]_vars

\* ratings, one of them between its read and its save while others run
NextRating ==
  \/ \E body \in RatedCreateBodies : CreateProduct(GenerateToken(1), body)
  \/ \E id \in IdInputs, body \in RatedUpdateBodies :
       UpdateProduct(GenerateToken(1), id, body)
  \/ \E id \in IdInputs : DeleteProduct(GenerateToken(1), id)
  \/ \E token \in Tokens(users), id \in IdInputs, rating \in RatingInputs :
       Rate(token, id, rating)
  \/ \E id \in IdInputs, rating \in RatingInputs : RateStart(GenerateToken(2), id, rating)
  \/ RateFinish

SpecRating == InitCatalog /\ [][NextRating]_vars

(***************************************************************************)
(* getProductsByCategory on a catalog of up to MaxListed products.         *)
(***************************************************************************)
RECURSIVE SortCreatedAt(_, _)
\* .sort({ createdAt: dir }) on the documents found: dir -1 is descending
SortCreatedAt(docs, dir) ==
  IF docs = {} THEN <<>>
  ELSE LET first == CHOOSE d \in docs :
                      \A e \in docs : dir * d.createdAt <= dir * e.createdAt
       IN  <<first>> \o SortCreatedAt(docs \ {first}, dir)

\* Product.find({ category })
FindCategory(ps, category) == {ps[k] : k \in {j \in DOMAIN ps : ps[j].category = category}}

\* a handler that sorts by creation time ascending
CategoryReplyAscending(ps, category) ==
  [Reply("byCategory", [category |-> category], 200, "")
     EXCEPT !.data = SortCreatedAt(FindCategory(ps, category), 1)]

\* getProductsByCategory
CategoryReply(ps, category) ==
  [Reply("byCategory", [category |-> category], 200, "")
     EXCEPT !.data = SortCreatedAt(FindCategory(ps, category), -1)]

\* router.get('/category/:category', getProductsByCategory)
GetProductsByCategory(category) ==
  /\ last' = CategoryReply(products, category)
  /\ UNCHANGED <<users, products, nextPid, pending, registered, accepted>>

ListedCreateBodies ==
  {BaseProduct, [BaseProduct EXCEPT !.name = Cup], [BaseProduct EXCEPT !.category = Toys]}

ListedUpdateBodies == {[NoFields EXCEPT !.category = Toys], [NoFields EXCEPT !.name = Cup]}

ListedIds == {[wf |-> TRUE, n |-> i] : i \in 1..MaxListed}

CategoryInputs ==
  {Books.s, Toys.s, <<"B", "o", "o", "k", "s">>, <<"h", "o", "m", "e">>}

NextListing ==
  \/ \E body \in ListedCreateBodies : CreateProductUpTo(MaxListed, GenerateToken(1), body)
  \/ \E id \in ListedIds, body \in ListedUpdateBodies :
       UpdateProduct(GenerateToken(1), id, body)
  \/ \E id \in ListedIds : DeleteProduct(GenerateToken(1), id)
  \/ \E category \in CategoryInputs : GetProductsByCategory(category)

SpecListing == InitCatalog /\ [][NextListing]_vars

\* the rating route alone, one request at a time, on products the admin
\* creates and deletes
\* ratings at and around the limits of the check
RateInputs ==
  {Undef, Whole(0), Whole(-1), Num(11, 2), Num(1, 2), Whole(5), Str(<<"0">>), Str(<<"x">>)}

NextRate ==
  \/ CreateProduct(GenerateToken(1), BaseProduct)
  \/ \E id \in IdInputs : DeleteProduct(GenerateToken(1), id)
  \/ \E token \in Tokens(users), id \in IdInputs, rating \in RateInputs :
       Rate(token, id, rating)

SpecRate == InitCatalog /\ [][NextRate]_vars

\* two users' ratings: the first user rates 1 in one step, the second rates 4
\* and is between its read and its save while the first runs or the admin
\* deletes the product
NextRateRace ==
  \/ CreateProduct(GenerateToken(1), BaseProduct)
  \/ \E id \in IdInputs : DeleteProduct(GenerateToken(1), id)
  \/ \E id \in IdInputs : GetProductById(id)
  \/ \E id \in IdInputs : Rate(GenerateToken(1), id, Whole(1))
  \/ \E id \in IdInputs : RateStart(GenerateToken(2), id, Whole(4))
  \/ RateFinish

SpecRateRace == InitCatalog /\ [][NextRateRace]_vars

\* callers who register with or without a role, log in and try to create a
\* product, on a store that starts empty
ElevateRegisterBodies ==
  [name : {AliceName}, email : {Str(<<"a", "@", "x">>), Str(<<"b", "@", "x">>)},
   password : {Secret}, role : {Undef, Str(RoleAdmin), Str(RoleUser)}]

ElevateLoginBodies ==
  [email : {Str(<<"a", "@", "x">>), Str(<<"b", "@", "x">>)}, password : {Secret}]

NextElevate ==
  \/ \E body \in ElevateRegisterBodies : Register(body)
  \/ \E body \in ElevateLoginBodies : Login(body)
  \/ \E token \in Tokens(users) : CreateProduct(token, BaseProduct)
  \/ \E token \in Tokens(users), id \in IdInputs : DeleteProduct(token, id)

SpecElevate == Init /\ [][NextElevate]_vars

\* every route of the model
Next == NextAuth \/ NextAuthRace \/ NextCatalog \/ NextRating \/ NextListing \/ NextRate \/ NextRateRace \/ NextElevate

Spec == Init /\ [][Next]_vars

(***************************************************************************)
(* Claims about the auth routes.                                           *)
(***************************************************************************)

\* C3: once a register request has succeeded, every later register request
\* whose email equals that one ignoring letter case fails with HTTP 400 and
\* stores no new user.
C3_LaterRegisterConflicts ==
  [][(last'.op = "register" /\ last'.dup) => (last'.status = 400 /\ users' = users)]_vars

\* C4: under any interleaving of register and updateProfile requests, no two
\* stored user records have the same stored email.
C4_StoredEmailsUnique ==
  \A i, j \in 1..Len(users) : i # j => users[i].email # users[j].email

\* a register whose check found no user and whose save met the email another
\* request had written in between
C4_Witness ==
  /\ last.op = "register"
  /\ last.status = 500
  /\ last.req.email = Str(<<"a", "@", "x">>)
  /\ \E i \in 1..Len(users) : users[i].email = <<"a", "@", "x">>

\* the request names an email no user record has
NoUserRecord(us, body) ==
  \A i \in 1..Len(us) : us[i].email # ToLowerCase(body.email.s)

\* the request names the email of a user record, with another password
WrongPassword(us, body) ==
  \E i \in 1..Len(us) :
    /\ us[i].email = ToLowerCase(body.email.s)
    /\ us[i].password # BcryptHash(body.password.s)

LoginFailure(us, body) ==
  /\ ~Falsy(body.email)
  /\ ~Falsy(body.password)
  /\ NoUserRecord(us, body) \/ WrongPassword(us, body)

C8_UpdateProfileFrame ==
  [][last'.op = "updateProfile" =>
       IF last'.actor = <<>> THEN users' = users
       ELSE /\ Len(users') = Len(users)
            /\ \A i \in 1..Len(users) :
                 /\ users'[i].password = users[i].password
                 /\ users'[i].role = users[i].role
                 /\ users'[i].createdAt = users[i].createdAt
                 /\ i # last'.actor[1].userId => users'[i] = users[i]
                 /\ Falsy(last'.req.name) => users'[i].name = users[i].name
                 /\ Falsy(last'.req.email) => users'[i].email = users[i].email
            /\ last'.msg = "Email is already taken by another user" => users' = users]_vars

\* an admin changed only the name, and the name was written trimmed
C8_Witness ==
  /\ last.op = "updateProfile"
  /\ last.status = 200
  /\ last.req.name = BobName
  /\ Falsy(last.req.email)
  /\ users[last.actor[1].userId].name = <<"B", "o">>
  /\ users[last.actor[1].userId].role = RoleAdmin


(***************************************************************************)
(* Claims about the product routes.                                        *)
(***************************************************************************)

\* the mean of the rating values accepted for a product
Mean(acc) == IF acc.n = 0 THEN Whole(0) ELSE Num(acc.sum.p, acc.sum.q * acc.n)

\* C1: after n >= 1 accepted ratings of a product, one after another and
\* with nothing else done to the product in between, its rating is the mean
\* of the n values and its ratingCount is n.
C1_RatingIsMean ==
  \A k \in DOMAIN products :
    (accepted[k].n >= 1 /\ accepted[k].clean) =>
      /\ products[k].rating = Mean(accepted[k])
      /\ products[k].ratingCount = accepted[k].n

\* C2: in every reachable state each product's rating is the mean of the
\* rating values accepted for it and its ratingCount their number (0 and 0
\* when there are none).
C2_RatingAlwaysMean ==
  \A k \in DOMAIN products :
    /\ products[k].rating = Mean(accepted[k])
    /\ products[k].ratingCount = accepted[k].n

\* a product without its rating and ratingCount
Core(doc) == [doc EXCEPT !.rating = Whole(0), !.ratingCount = 0]

CatalogCore(ps) == [k \in DOMAIN ps |-> Core(ps[k])]

CatalogWrite == {"create", "update", "delete"}

C7_AdminMiddleware ==
  last.admin # <<>> =>
    /\ last.actor = <<>> => last.admin[1].status = 401 /\ last.admin[1].next = 0
    /\ (last.actor # <<>> /\ last.actor[1].role # RoleAdmin) =>
         last.admin[1].status = 403 /\ last.admin[1].next = 0
    /\ (last.actor # <<>> /\ last.actor[1].role = RoleAdmin) =>
         last.admin[1].status = 0 /\ last.admin[1].next = 1
    /\ last.admin[1].next = 0 => ~last.reached /\ last.status = last.admin[1].status
    /\ last.admin[1].next = 1 => last.reached

\* the middleware ran on a request without an actor; an admin passes and
\* another role is refused
C7_Witness ==
  /\ last.op = "admin"
  /\ last.actor = <<>>
  /\ last.status = 401
  /\ ~last.reached
  /\ \E a \in ActorInputs : a # <<>> /\ Admin(a).next = 1
  /\ \E a \in ActorInputs : a # <<>> /\ Admin(a).status = 403

\* C9: getById and delete with an id that matches no product, well-formed
\* or malformed, answer 404 and leave the catalog unchanged.
C9_UnknownIdNotFound ==
  [][(/\ last'.op \in {"getById", "delete"}
      /\ last'.reached
      /\ ~Found(products, last'.req.id)) =>
       /\ last'.status = 404
       /\ products' = products]_vars

Missing(v) == v.t = "undef"

RequiredMissing(b) ==
  \/ Missing(b.name) \/ Missing(b.description) \/ Missing(b.price)
  \/ Missing(b.image) \/ Missing(b.category) \/ Missing(b.stock)

\* C10: create answers 400 and stores nothing when a required field is
\* missing, the price is <= 0 or the stock is < 0; with price 0.01, stock 0
\* and the other required fields valid it stores exactly one product, with
\* brand MadeInIndia and rating 0 when these are not supplied.
C10_CreateValidation ==
  [][(last'.op = "create" /\ last'.reached) =>
       /\ (\/ RequiredMissing(last'.req)
           \/ last'.req.price.t = "num" /\ last'.req.price.p <= 0
           \/ last'.req.stock.t = "num" /\ last'.req.stock.p < 0) =>
            /\ last'.status = 400
            /\ products' = products
       /\ last'.req = BaseProduct =>
            /\ last'.status = 201
            /\ DOMAIN products' = DOMAIN products \cup {nextPid}
            /\ nextPid \notin DOMAIN products
            /\ \A k \in DOMAIN products : products'[k] = products[k]
            /\ products'[nextPid].price = Num(1, 100)
            /\ products'[nextPid].stock = Whole(0)
            /\ products'[nextPid].brand = DefaultBrand
            /\ products'[nextPid].rating = Whole(0)
            /\ products'[nextPid].ratingCount = 0]_vars

\* the admin created the product with price 0.01 and stock 0
C10_Witness ==
  /\ last.op = "create"
  /\ last.status = 201
  /\ last.req = BaseProduct
  /\ \E k \in DOMAIN products :
       /\ products[k].price = Num(1, 100)
       /\ products[k].stock = Whole(0)
       /\ products[k].brand = DefaultBrand


AuthOps == {"register", "login", "getProfile", "updateProfile"}

\* the fields of a response's user object that hold strings
TextFields(d) == DOMAIN d \ {"id", "createdAt"}

\* C12: no response of register, login, getProfile or updateProfile,
\* successful or failed, carries a password field, the password hash of a
\* stored user or a password that hashes to it; the session cookie carries
\* the user id only.
C12_NoPasswordInResponse ==
  last.op \in AuthOps =>
    /\ \A k \in 1..Len(last.data) :
         /\ "password" \notin DOMAIN last.data[k]
         /\ \A f \in TextFields(last.data[k]), i \in 1..Len(users) :
              /\ last.data[k][f] # users[i].password
              /\ ~BcryptCompare(last.data[k][f], users[i].password)
    /\ \A k \in 1..Len(last.cookie) : DOMAIN last.cookie[k] = {"kind", "userId"}

\* a login answered with the user's data and a session cookie
C12_Witness ==
  /\ last.op = "login"
  /\ last.status = 200
  /\ last.data # <<>>
  /\ last.cookie # <<>>
  /\ \E i \in 1..Len(users) : users[i].email = last.data[1].email /\ users[i].password # <<>>


\* C13: a rating request that read the product before another request saved
\* is still accepted, and its save sets ratingCount to the count it read
\* plus one and rating to the mean it computed from what it read, whatever
\* was stored in between: two such requests can both be accepted while
\* ratingCount grows by 1 and the rating is that of the later save.
C13_LastWriteWins ==
  [][(/\ pending # <<>>
      /\ pending[1].op = "rate"
      /\ pending' = <<>>
      /\ last'.status = 200) =>
       LET n == pending[1].id.n
           read == pending[1].read
       IN  /\ accepted'[n].n = accepted[n].n + 1
           /\ products'[n].ratingCount = read.ratingCount + 1
           /\ last'.data[1].ratingCount = read.ratingCount + 1
           /\ products'[n].rating \in {last'.data[1].rating, products[n].rating}
           /\ last'.data[1].rating # read.rating =>
                products'[n].rating = last'.data[1].rating]_vars

\* two ratings, 1 and 4, were accepted for a product that had none; the
\* stored count is 1 and the stored rating is the 4 of the later save
C13_Witness ==
  /\ last.op = "rate"
  /\ last.status = 200
  /\ last.req.rating = Whole(4)
  /\ \E k \in DOMAIN products :
       /\ accepted[k].n = 2
       /\ accepted[k].sum = Whole(5)
       /\ products[k].ratingCount = 1
       /\ products[k].rating = Whole(4)


\* C14: the rating handler answers 400 and leaves the catalog unchanged
\* when the rating is missing, is the number 0, is below 0 or is above 5;
\* it accepts every number v with 0 < v <= 5 for an existing product.
C14_RateValidation ==
  [][(last'.op = "rate" /\ last'.reached) =>
       LET v == last'.req.rating
           id == last'.req.id
       IN  /\ (\/ Missing(v)
               \/ v.t = "num" /\ (v.p = 0 \/ v.p < 0 \/ v.p > MaxRating * v.q)) =>
                /\ last'.status = 400
                /\ products' = products
           /\ (v.t = "num" /\ 0 < v.p /\ v.p <= MaxRating * v.q /\ Found(products, id)) =>
                /\ last'.status = 200
                /\ products'[id.n].ratingCount = products[id.n].ratingCount + 1]_vars

\* a rating of 0 for a product that has a rating was turned away
C14_Witness ==
  /\ last.op = "rate"
  /\ last.status = 400
  /\ last.req.rating = Whole(0)
  /\ Found(products, last.req.id)
  /\ products[last.req.id.n].ratingCount >= 1
  /\ products[last.req.id.n].rating = Whole(5)


\* C15: a register request that names role admin stores a user whose role
\* is admin, with no check of who asks, and the session cookie it sets
\* passes the admin middleware; a register request without a role stores
\* role user.  A caller without an account can so come to create a product.
C15_RoleAsRequested ==
  [][(last'.op = "register" /\ last'.status = 201) =>
       /\ Len(users') = Len(users) + 1
       /\ Missing(last'.req.role) => users'[Len(users')].role = RoleUser
       /\ last'.req.role = Str(RoleAdmin) =>
            /\ users'[Len(users')].role = RoleAdmin
            /\ last'.cookie # <<>>
            /\ Auth(users', last'.cookie[1]) # <<>>
            /\ Auth(users', last'.cookie[1])[1].userId = Len(users')
            /\ Admin(Auth(users', last'.cookie[1])).next = 1]_vars

\* on a store that was empty, a user registered as admin has created a
\* product, and a user registered without a role is stored with role user
C15_Witness ==
  /\ last.op = "create"
  /\ last.status = 201
  /\ last.actor # <<>>
  /\ users[last.actor[1].userId].role = RoleAdmin
  /\ DOMAIN products # {}
  /\ \E i \in 1..Len(users) : users[i].role = RoleUser


BodyFields == {"name", "description", "price", "image", "category", "stock", "brand", "rating"}

\* C16: update on an existing product changes only the fields the request
\* supplies and leaves the product's other fields (ratingCount and isActive
\* among them) and every other product unchanged; it answers 400 and changes
\* nothing when a supplied price is <= 0 or a supplied stock is < 0, and
\* answers 404 and changes nothing when no product has the id.
C16_UpdateFrame ==
  [][(last'.op = "update" /\ last'.reached) =>
       LET id == last'.req.id
           b == last'.req.body
           refused == \/ b.price.t = "num" /\ b.price.p <= 0
                      \/ b.stock.t = "num" /\ b.stock.p < 0
       IN  /\ DOMAIN products' = DOMAIN products
           /\ \A k \in DOMAIN products :
                /\ k # id.n => products'[k] = products[k]
                /\ products'[k].ratingCount = products[k].ratingCount
                /\ products'[k].isActive = products[k].isActive
                /\ products'[k].createdAt = products[k].createdAt
                /\ \A f \in BodyFields : Missing(b[f]) => products'[k][f] = products[k][f]
           /\ refused => last'.status = 400 /\ products' = products
           /\ (~refused /\ ~Found(products, id)) =>
                last'.status = 404 /\ products' = products]_vars

====
